---- MODULE Spec2Model ----
(***************************************************************************)
(* Model of buildkite_test_collector.collector.payload (TestSpan,          *)
(* TestHistory, TestData, Payload) and of the submission pipeline that     *)
(* consumes Payload.into_batches / Payload.as_json.                        *)
(*                                                                         *)
(* Python values are represented as follows.                               *)
(*   Optional[T]      None is <<>>, a present value v is <<v>>             *)
(*   Instant          a natural number of clock ticks (seconds)            *)
(*   timedelta        a record [delta |-> n]; total_seconds() reads delta  *)
(*   frozen dataclass a record with the dataclass's fields                 *)
(*   tuple            a sequence                                           *)
(*   JSON dict        a record whose optional keys are Optional values     *)
(*                    (<<>> stands for "key absent")                       *)
(* A Python call that raises is represented by a Raises predicate next to  *)
(* the operator that computes the value of the call when it returns.       *)
(***************************************************************************)
EXTENDS Integers, Sequences, FiniteSets, TLC

VARIABLES clock, nextId, td, prev, payload, op, json,
          batchSize, batches,
          token, pc, idx, results, posts, warnings,
          recv, shared, args, tdJson, lastMark, spanLog,
          rest, depth, calls

vars == <<clock, nextId, td, prev, payload, op, json,
          batchSize, batches,
          token, pc, idx, results, posts, warnings,
          recv, shared, args, tdJson, lastMark, spanLog,
          rest, depth, calls>>

testVars   == <<clock, nextId, td, prev, payload, op, json>>
batchVars  == <<batchSize, batches>>
submitVars == <<token, pc, idx, results, posts, warnings>>
objVars    == <<recv, shared, args, tdJson, lastMark, spanLog, calls>>
recVars    == <<rest, depth>>

(* ------------------------------ bounds --------------------------------- *)
MaxClock == 2
MaxTests == 2
MaxData  == 4
MaxBatch == 3

(* ------------------------------ Optional ------------------------------- *)
None == <<>>
Some(v) == <<v>>
Get(o) == o[1]

(* ------------------------------ Instant -------------------------------- *)
\* Instant.now(): the current reading of the monotonic clock.
InstantNow(now) == now

\* Instant.__sub__: the timedelta between two instants.
InstantSub(a, b) == [delta |-> a - b]

\* a - b with an operand that is None is not a subtraction of two Instants.
SubRaises(a, b) == a = None \/ b = None

\* timedelta.total_seconds()
TotalSeconds(d) == d.delta

OffsetFromEpoch(x, started_at) == TotalSeconds(InstantSub(Get(x), 0))

\* (x - started_at).total_seconds() for a present x
Offset(x, started_at) == TotalSeconds(InstantSub(Get(x), Get(started_at)))

(* ------------------------------ results -------------------------------- *)
TestResultPassed == [kind |-> "passed"]
TestResultFailed(failure_reason, failure_expanded) ==
    [kind |-> "failed", failure_reason |-> failure_reason,
     failure_expanded |-> failure_expanded]
TestResultSkipped == [kind |-> "skipped"]

(* ------------------------------ TestSpan ------------------------------- *)
TestSpan(section, duration, start_at, end_at, detail) ==
    [section |-> section, duration |-> duration, start_at |-> start_at,
     end_at |-> end_at, detail |-> detail]

TestSpanAsJsonRaises(span, started_at) ==
    \/ span.start_at # None /\ SubRaises(span.start_at, started_at)
    \/ span.end_at # None /\ SubRaises(span.end_at, started_at)

TestSpanAsJson(span, started_at) ==
    [section  |-> span.section,
     duration |-> TotalSeconds(span.duration),
     detail   |-> span.detail,
     start_at |-> IF span.start_at # None
                  THEN Some(Offset(span.start_at, started_at)) ELSE None,
     end_at   |-> IF span.end_at # None
                  THEN Some(Offset(span.end_at, started_at)) ELSE None]

(* ------------------------------ TestHistory ---------------------------- *)
TestHistory(start_at) ==
    [start_at |-> start_at, end_at |-> None, duration |-> None,
     children |-> <<>>]

HistoryIsFinished(h) == h.end_at # None

HistoryPushSpanFront(h, span) == [h EXCEPT !.children = <<span>> \o h.children]

HistoryPushSpanReset(h, span) ==
    [start_at |-> h.start_at, end_at |-> None, duration |-> None,
     children |-> Append(h.children, span)]

HistoryPushSpan(h, span) == [h EXCEPT !.children = Append(h.children, span)]

HistoryAsJsonRaises(h, started_at) ==
    \/ \E i \in 1..Len(h.children) :
          TestSpanAsJsonRaises(h.children[i], started_at)
    \/ h.start_at # None /\ SubRaises(h.start_at, started_at)
    \/ h.end_at # None /\ SubRaises(h.end_at, started_at)

HistoryAsJson(h, started_at) ==
    [section  |-> "top",
     children |-> [i \in 1..Len(h.children) |->
                      TestSpanAsJson(h.children[i], started_at)],
     start_at |-> IF h.start_at # None
                  THEN Some(Offset(h.start_at, started_at)) ELSE None,
     end_at   |-> IF h.end_at # None
                  THEN Some(Offset(h.end_at, started_at)) ELSE None,
     duration |-> IF h.duration # None
                  THEN Some(TotalSeconds(Get(h.duration))) ELSE None]

(* ------------------------------ TestData ------------------------------- *)
\* TestData.start: the scope and name are derived from the id here, the
\* location and file name are left at their defaults.
TestDataStart(id, now) ==
    [id |-> id, scope |-> <<"scope", id>>, name |-> <<"name", id>>,
     location |-> None, file_name |-> None,
     history |-> TestHistory(Some(InstantNow(now))),
     tags |-> <<>>, result |-> None]

\* history is a dataclass instance, hence truthy: the conjunction reduces
\* to history.is_finished().
TestDataIsFinished(t) == HistoryIsFinished(t.history)

TestDataFinishRaises(t, now) ==
    ~TestDataIsFinished(t) /\ SubRaises(Some(InstantNow(now)), t.history.start_at)

TestDataFinishRestamp(t, now) ==
    [t EXCEPT !.history.end_at = Some(InstantNow(now)),
              !.history.duration =
                  Some(InstantSub(InstantNow(now), Get(t.history.start_at)))]

TestDataFinish(t, now) ==
    IF TestDataIsFinished(t)
    THEN t
    ELSE [t EXCEPT !.history.end_at = Some(InstantNow(now)),
                   !.history.duration =
                       Some(InstantSub(InstantNow(now), Get(t.history.start_at)))]

TestDataPassedFinishes(t) ==
    [t EXCEPT !.result = Some(TestResultPassed),
              !.history.end_at = t.history.start_at,
              !.history.duration = Some(InstantSub(0, 0))]

TestDataPassed(t) == [t EXCEPT !.result = Some(TestResultPassed)]

TestDataFailed(t, failure_reason, failure_expanded) ==
    [t EXCEPT !.result = Some(TestResultFailed(failure_reason, failure_expanded))]

TestDataSkipped(t) == [t EXCEPT !.result = Some(TestResultSkipped)]

(* Python values handed to tag_execution: a value with its type. *)
PyStr(x) == [type |-> "str", v |-> x]
PyInt(x) == [type |-> "int", v |-> x]
PyNone == [type |-> "NoneType", v |-> "None"]

\* isinstance(x, str)
IsInstanceStr(x) == x.type = "str"

TagExecutionRaisesOnKeyOnly(key, val) == ~IsInstanceStr(key)

\* raise TypeError("Expected string for key and value")
TagExecutionRaises(key, val) == ~IsInstanceStr(key) \/ ~IsInstanceStr(val)

\* new_tags[key] = val on a dict
TagsPut(tags, key, val) ==
    [k \in DOMAIN tags \cup {key} |-> IF k = key THEN val ELSE tags[k]]

\* the TestData returned by tag_execution(key, val)
TestDataTagExecution(t, key, val) ==
    [t EXCEPT !.tags = TagsPut(t.tags, key, val)]

TagExecutionInPlace(t, key, val) ==
    [self     |-> TestDataTagExecution(t, key, val),
     returned |-> TestDataTagExecution(t, key, val),
     aliased  |-> TRUE]

\* One call of tag_execution(key, val) that does not raise. The tags dict
\* is the one mutable object a TestData holds: the call writes into
\* self.tags.copy(), so the receiver (self) keeps its dict as it was and the
\* returned TestData holds a dict of its own (aliased is FALSE).
TagExecutionCall(t, key, val) ==
    [self     |-> t,
     returned |-> TestDataTagExecution(t, key, val),
     aliased  |-> FALSE]

TestDataPushSpan(t, span) ==
    [t EXCEPT !.history = HistoryPushSpan(t.history, span)]

\* str(uuid)
Str(id) == <<"str", id>>

ResultIsSet(t, kind) == t.result # None /\ kind = "passed"

ResultIs(t, kind) == t.result # None /\ Get(t.result).kind = kind

TestDataAsJsonRaises(t, started_at) == HistoryAsJsonRaises(t.history, started_at)

TestDataAsJson(t, started_at) ==
    [id        |-> Str(t.id),
     scope     |-> t.scope,
     name      |-> t.name,
     location  |-> t.location,
     file_name |-> t.file_name,
     history   |-> HistoryAsJson(t.history, started_at),
     tags      |-> IF Cardinality(DOMAIN t.tags) > 0 THEN Some(t.tags) ELSE None,
     result    |-> IF ResultIs(t, "passed") THEN Some("passed")
                   ELSE IF ResultIs(t, "failed") THEN Some("failed")
                   ELSE IF ResultIs(t, "skipped") THEN Some("skipped")
                   ELSE None,
     failure_reason   |-> IF ResultIs(t, "failed")
                          THEN Get(t.result).failure_reason ELSE None,
     failure_expanded |-> IF ResultIs(t, "failed")
                          THEN Get(t.result).failure_expanded ELSE None]

(* ------------------------------ RunEnv --------------------------------- *)
\* The run-environment descriptor is an opaque value; as_json() encodes it.
RunEnv == "run_env"
RunEnvAsJson(e) == <<"json", e>>

(* ------------------------------ Payload -------------------------------- *)
PayloadInit(run_env) ==
    [run_env |-> run_env, data |-> <<>>, started_at |-> None,
     finished_at |-> None]

PayloadPushTestData(p, report) == [p EXCEPT !.data = Append(p.data, report)]

PayloadIsStarted(p) == p.started_at # None

PayloadStarted(p, now) == [p EXCEPT !.started_at = Some(InstantNow(now))]

AllData(p) == p.data

\* finished_data = list(filter(lambda td: td.is_finished(), self.data))
FinishedData(p) == SelectSeq(p.data, TestDataIsFinished)

\* len(finished_data) < len(self.data): the warning is logged
PayloadAsJsonWarns(p) == Len(FinishedData(p)) < Len(p.data)

\* tuple(map(...)) encodes every finished entry; one raising entry makes the
\* whole call raise.
PayloadAsJsonRaises(p) ==
    \E i \in 1..Len(FinishedData(p)) :
        TestDataAsJsonRaises(FinishedData(p)[i], p.started_at)

PayloadAsJsonValue(p) ==
    [format  |-> "json",
     run_env |-> RunEnvAsJson(p.run_env),
     data    |-> [i \in 1..Len(FinishedData(p)) |->
                     TestDataAsJson(FinishedData(p)[i], p.started_at)]]

\* The outcome of one call of Payload.as_json(): whether the warning was
\* logged, whether the call raised, and the returned dict when it did not.
PayloadAsJson(p) ==
    [warned |-> PayloadAsJsonWarns(p),
     raised |-> PayloadAsJsonRaises(p),
     value  |-> IF PayloadAsJsonRaises(p) THEN None
                ELSE Some(PayloadAsJsonValue(p))]

RECURSIVE IntoBatchesFresh(_, _, _, _)
IntoBatchesFresh(self, data, bs, batch_size) ==
    IF Len(data) <= batch_size
    THEN Append(bs, [run_env |-> self.run_env, data |-> data,
                     started_at |-> None, finished_at |-> None])
    ELSE IntoBatchesFresh(self,
                          SubSeq(data, batch_size + 1, Len(data)),
                          Append(bs, [run_env |-> self.run_env,
                                      data |-> SubSeq(data, 1, batch_size),
                                      started_at |-> None, finished_at |-> None]),
                          batch_size)

RECURSIVE IntoBatchesLossy(_, _, _, _)
IntoBatchesLossy(self, data, bs, batch_size) ==
    IF Len(data) <= batch_size
    THEN Append(bs, [self EXCEPT !.data = data])
    ELSE IntoBatchesLossy(self,
                          SubSeq(data, batch_size + 2, Len(data)),
                          Append(bs, [self EXCEPT !.data = SubSeq(data, 1, batch_size)]),
                          batch_size)

RECURSIVE IntoBatchesStrict(_, _, _, _)
IntoBatchesStrict(self, data, bs, batch_size) ==
    IF Len(data) < batch_size
    THEN Append(bs, [self EXCEPT !.data = data])
    ELSE IntoBatchesStrict(self,
                           SubSeq(data, batch_size + 1, Len(data)),
                           Append(bs, [self EXCEPT !.data = SubSeq(data, 1, batch_size)]),
                           batch_size)

\* Payload.__into_batches(data, batches, batch_size)
RECURSIVE IntoBatchesRec(_, _, _, _)
IntoBatchesRec(self, data, bs, batch_size) ==
    IF Len(data) <= batch_size
    THEN Append(bs, [self EXCEPT !.data = data])
    ELSE IntoBatchesRec(self,
                        SubSeq(data, batch_size + 1, Len(data)),
                        Append(bs, [self EXCEPT !.data = SubSeq(data, 1, batch_size)]),
                        batch_size)

\* Payload.into_batches(batch_size)
IntoBatches(p, batch_size) == IntoBatchesRec(p, p.data, <<>>, batch_size)

(* ------------------------- inputs of the operations -------------------- *)
FailureExpanded == <<[diff |-> <<"- a", "+ b">>]>>
FailureArgs == {<<None, None>>, <<Some("boom"), Some(FailureExpanded)>>}

NoJson == [warned |-> FALSE, raised |-> FALSE, value |-> None]

(* ----------------- Spec: the life of the tests of one run -------------- *)
(* The host starts tests one at a time, marks their result, finishes them  *)
(* (or not), pushes them into the payload, and serialises the payload.     *)
(* op names the last operation, prev is the receiver of the last TestData  *)
(* method and json the outcome of the last Payload.as_json().              *)
IdleBatch  == batchSize = 1 /\ batches = <<>>
IdleSubmit == /\ token = None /\ pc = "idle" /\ idx = 0
              /\ results = <<>> /\ posts = <<>> /\ warnings = <<>>
IdleObj    == /\ recv = None /\ shared = {} /\ args = <<>> /\ tdJson = None
              /\ lastMark = <<"none", None, None>> /\ spanLog = <<>> /\ calls = 0
IdleRec    == rest = <<>> /\ depth = 0

Init ==
    /\ clock = 0
    /\ nextId = 1
    /\ td = None
    /\ prev = None
    /\ payload = PayloadInit(RunEnv)
    /\ op = "init"
    /\ json = NoJson
    /\ IdleBatch
    /\ IdleSubmit
    /\ IdleObj
    /\ IdleRec

Tick ==
    /\ clock < MaxClock
    /\ clock' = clock + 1
    /\ op' = "tick"
    /\ prev' = None
    /\ json' = NoJson
    /\ UNCHANGED <<nextId, td, payload, batchVars, submitVars, objVars, recVars>>

Started ==
    /\ payload' = PayloadStarted(payload, clock)
    /\ op' = "started"
    /\ prev' = None
    /\ json' = NoJson
    /\ UNCHANGED <<clock, nextId, td, batchVars, submitVars, objVars, recVars>>

Start ==
    /\ td = None
    /\ nextId <= MaxTests
    /\ td' = Some(TestDataStart(nextId, clock))
    /\ nextId' = nextId + 1
    /\ op' = "start"
    /\ prev' = None
    /\ json' = NoJson
    /\ UNCHANGED <<clock, payload, batchVars, submitVars, objVars, recVars>>

Finish ==
    /\ td # None
    /\ ~TestDataFinishRaises(Get(td), clock)
    /\ td' = Some(TestDataFinish(Get(td), clock))
    /\ op' = "finish"
    /\ prev' = td
    /\ json' = NoJson
    /\ UNCHANGED <<clock, nextId, payload, batchVars, submitVars, objVars, recVars>>

Passed ==
    /\ td # None
    /\ td' = Some(TestDataPassed(Get(td)))
    /\ op' = "passed"
    /\ prev' = td
    /\ json' = NoJson
    /\ UNCHANGED <<clock, nextId, payload, batchVars, submitVars, objVars, recVars>>

Failed ==
    /\ td # None
    /\ \E a \in FailureArgs : td' = Some(TestDataFailed(Get(td), a[1], a[2]))
    /\ op' = "failed"
    /\ prev' = td
    /\ json' = NoJson
    /\ UNCHANGED <<clock, nextId, payload, batchVars, submitVars, objVars, recVars>>

Skipped ==
    /\ td # None
    /\ td' = Some(TestDataSkipped(Get(td)))
    /\ op' = "skipped"
    /\ prev' = td
    /\ json' = NoJson
    /\ UNCHANGED <<clock, nextId, payload, batchVars, submitVars, objVars, recVars>>

PushTestData ==
    /\ td # None
    /\ payload' = PayloadPushTestData(payload, Get(td))
    /\ td' = None
    /\ op' = "push_test_data"
    /\ prev' = None
    /\ json' = NoJson
    /\ UNCHANGED <<clock, nextId, batchVars, submitVars, objVars, recVars>>

AsJson ==
    /\ json' = PayloadAsJson(payload)
    /\ op' = "as_json"
    /\ prev' = None
    /\ UNCHANGED <<clock, nextId, td, payload, batchVars, submitVars, objVars, recVars>>

Next ==
    \/ Tick
    \/ Started
    \/ Start
    \/ Finish
    \/ Passed
    \/ Failed
    \/ Skipped
    \/ PushTestData
    \/ AsJson

Spec == Init /\ [][Next]_vars

(* --------------- SpecBatch: Payload.into_batches on its inputs ---------- *)
(* The payload is any payload of up to MaxData tests, each started at tick *)
(* 0 and either still running or passed and finished at tick 1; the batch  *)
(* size is any size from 1 to MaxBatch.                                    *)
InputEntry(i, finished) ==
    IF finished
    THEN TestDataFinish(TestDataPassed(TestDataStart(i, 0)), 1)
    ELSE TestDataStart(i, 0)

InputData ==
    UNION {{[i \in 1..n |-> InputEntry(i, f[i])] : f \in [1..n -> BOOLEAN]} :
              n \in 0..MaxData}

InputPayloads ==
    {[PayloadInit(RunEnv) EXCEPT !.data = d, !.started_at = s] :
        d \in InputData, s \in {None, Some(0)}}

\* the started payloads, with the finish time a collaborator has set
FinishedInputPayloads ==
    {[p EXCEPT !.finished_at = Some(1)] :
        p \in {q \in InputPayloads : q.started_at # None}}

InitBatch ==
    /\ clock = 1
    /\ td = None
    /\ prev = None
    /\ payload \in InputPayloads \cup FinishedInputPayloads
    /\ nextId = Len(payload.data) + 1
    /\ op = "init"
    /\ json = NoJson
    /\ batchSize \in 1..MaxBatch
    /\ batches = <<>>
    /\ IdleSubmit
    /\ IdleObj
    /\ IdleRec

IntoBatchesCall ==
    /\ op = "init"
    /\ batches' = IntoBatches(payload, batchSize)
    /\ op' = "into_batches"
    /\ UNCHANGED <<clock, nextId, td, prev, payload, json, batchSize, submitVars, objVars, recVars>>

NextBatch == IntoBatchesCall

SpecBatch == InitBatch /\ [][NextBatch]_vars

(* --------------- SpecRec: the recursion of __into_batches -------------- *)
(* One call of into_batches, one step per call of __into_batches: rest is  *)
(* the data argument, batches the batches argument, depth the number of    *)
(* recursive calls made so far. The call runs to completion.               *)
NextDataSame(data, batch_size) == data

\* next_data = data[batch_size:]
NextData(data, batch_size) == SubSeq(data, batch_size + 1, Len(data))

\* next_batch = data[0:batch_size]
NextBatchData(data, batch_size) == SubSeq(data, 1, batch_size)

InitRec ==
    /\ clock = 1
    /\ td = None
    /\ prev = None
    /\ payload \in InputPayloads
    /\ nextId = Len(payload.data) + 1
    /\ op = "init"
    /\ json = NoJson
    /\ batchSize \in 1..MaxBatch
    /\ batches = <<>>
    /\ IdleSubmit
    /\ IdleObj
    /\ IdleRec

RecFrame ==
    UNCHANGED <<clock, nextId, td, prev, payload, json, batchSize,
                submitVars, objVars>>

\* into_batches(batch_size) calls __into_batches(self.data, tuple(), batch_size)
RecCall ==
    /\ op = "init"
    /\ rest' = payload.data
    /\ batches' = <<>>
    /\ depth' = 0
    /\ op' = "called"
    /\ RecFrame

\* len(data) > batch_size: one batch is cut off and the function calls itself
RecRecurse ==
    /\ op = "called"
    /\ ~(Len(rest) <= batchSize)
    /\ batches' = Append(batches,
                         [payload EXCEPT !.data = NextBatchData(rest, batchSize)])
    /\ rest' = NextData(rest, batchSize)
    /\ depth' = depth + 1
    /\ UNCHANGED op
    /\ RecFrame

\* len(data) <= batch_size: the last batch is added and the calls return
RecReturn ==
    /\ op = "called"
    /\ Len(rest) <= batchSize
    /\ batches' = Append(batches, [payload EXCEPT !.data = rest])
    /\ op' = "returned"
    /\ UNCHANGED <<rest, depth>>
    /\ RecFrame

NextRec ==
    \/ RecCall
    \/ RecRecurse
    \/ RecReturn

SpecRec == InitRec /\ [][NextRec]_vars /\ WF_vars(NextRec)

(* --------------- SpecTest: the life of one TestData --------------------- *)
(* One test is started, tagged, given spans and results, finished, pushed  *)
(* into a payload (which keeps the object pushed) and encoded, in any      *)
(* order. prev is the receiver before the last TestData method, recv the   *)
(* receiver after it, args the arguments of the call; shared is the set of *)
(* payload entries whose tags dict is the dict of the current TestData;    *)
(* lastMark is the last passed/failed/skipped call with its arguments,     *)
(* spanLog the spans pushed so far and calls the number of calls made: a   *)
(* run makes at most MaxCalls calls.                                       *)
MaxSpans  == 2
MaxPushed == 1
MaxCalls  == 5

TagKeys   == {PyStr("k1"), PyStr("k2"), PyInt("1")}
TagValues == {PyStr("a"), PyStr("b"), PyNone}

SpanInputs ==
    {TestSpan("sql", [delta |-> 5], Some(0), Some(1), Some("SELECT 1")),
     TestSpan("sleep", [delta |-> 1], None, None, None)}

InitTest ==
    /\ clock = 0
    /\ nextId = 1
    /\ td = None
    /\ prev = None
    /\ payload = PayloadStarted(PayloadInit(RunEnv), 0)
    /\ op = "init"
    /\ json = NoJson
    /\ IdleBatch
    /\ IdleSubmit
    /\ IdleObj
    /\ IdleRec

\* What every step of SpecTest leaves alone.
TestFrame == UNCHANGED <<nextId, json, batchVars, submitVars, recVars>>

\* One more call is made.
OneCall == calls < MaxCalls /\ calls' = calls + 1

\* A TestData method built on dataclasses.replace: the receiver is a frozen
\* dataclass and is left as it was; the new instance holds the same tags
\* dict, so the payload entries sharing it remain the same.
ReplaceStep(name, returned, a) ==
    /\ td # None
    /\ td' = Some(returned)
    /\ prev' = td
    /\ recv' = td
    /\ op' = name
    /\ args' = a
    /\ tdJson' = None
    /\ OneCall
    /\ UNCHANGED <<clock, payload, shared>>
    /\ TestFrame

TestTick ==
    /\ clock < MaxClock
    /\ clock' = clock + 1
    /\ op' = "tick"
    /\ prev' = None
    /\ recv' = None
    /\ args' = <<>>
    /\ tdJson' = None
    /\ UNCHANGED <<td, payload, shared, lastMark, spanLog>>
    /\ UNCHANGED calls
    /\ TestFrame

TestStart ==
    /\ td = None
    /\ td' = Some(TestDataStart(nextId, clock))
    /\ op' = "start"
    /\ prev' = None
    /\ recv' = None
    /\ args' = <<>>
    /\ tdJson' = None
    /\ shared' = {}
    /\ lastMark' = <<"none", None, None>>
    /\ spanLog' = <<>>
    /\ UNCHANGED <<clock, payload>>
    /\ OneCall
    /\ TestFrame

TestFinish ==
    /\ td # None
    /\ ~TestDataFinishRaises(Get(td), clock)
    /\ ReplaceStep("finish", TestDataFinish(Get(td), clock), <<>>)
    /\ UNCHANGED <<lastMark, spanLog>>

TestPassed ==
    /\ td # None
    /\ ReplaceStep("passed", TestDataPassed(Get(td)), <<>>)
    /\ lastMark' = <<"passed", None, None>>
    /\ UNCHANGED spanLog

TestFailed ==
    /\ td # None
    /\ \E a \in FailureArgs :
          /\ ReplaceStep("failed", TestDataFailed(Get(td), a[1], a[2]), a)
          /\ lastMark' = <<"failed", a[1], a[2]>>
    /\ UNCHANGED spanLog

TestSkipped ==
    /\ td # None
    /\ ReplaceStep("skipped", TestDataSkipped(Get(td)), <<>>)
    /\ lastMark' = <<"skipped", None, None>>
    /\ UNCHANGED spanLog

TestPushSpan ==
    /\ td # None
    /\ Len(Get(td).history.children) < MaxSpans
    /\ \E span \in SpanInputs :
          /\ ReplaceStep("push_span", TestDataPushSpan(Get(td), span), <<span>>)
          /\ spanLog' = Append(spanLog, span)
    /\ UNCHANGED lastMark

\* tag_execution(key, val) with strings
TagExecution ==
    /\ td # None
    /\ \E key \in TagKeys, val \in TagValues :
          /\ ~TagExecutionRaises(key, val)
          /\ LET c == TagExecutionCall(Get(td), key, val)
             IN /\ td' = Some(c.returned)
                /\ recv' = Some(c.self)
                /\ payload' =
                      [payload EXCEPT !.data =
                          [i \in 1..Len(payload.data) |->
                              IF i \in shared
                              THEN [payload.data[i] EXCEPT !.tags = c.self.tags]
                              ELSE payload.data[i]]]
                /\ shared' = IF c.aliased THEN shared ELSE {}
          /\ args' = <<key, val>>
    /\ prev' = td
    /\ op' = "tag_execution"
    /\ tdJson' = None
    /\ UNCHANGED <<clock, lastMark, spanLog>>
    /\ OneCall
    /\ TestFrame

\* tag_execution(key, val) with a key or a value that is not a string: the
\* TypeError reaches the caller, nothing is returned.
TagExecutionTypeError ==
    /\ td # None
    /\ \E key \in TagKeys, val \in TagValues :
          /\ TagExecutionRaises(key, val)
          /\ args' = <<key, val>>
    /\ prev' = td
    /\ recv' = td
    /\ op' = "tag_execution_raised"
    /\ tdJson' = None
    /\ UNCHANGED <<clock, td, payload, shared, lastMark, spanLog>>
    /\ OneCall
    /\ TestFrame

\* payload.push_test_data(td): the payload holds the object pushed
TestPushTestData ==
    /\ td # None
    /\ Len(payload.data) < MaxPushed
    /\ payload' = PayloadPushTestData(payload, Get(td))
    /\ shared' = shared \cup {Len(payload.data) + 1}
    /\ op' = "push_test_data"
    /\ prev' = td
    /\ recv' = td
    /\ args' = <<>>
    /\ tdJson' = None
    /\ UNCHANGED <<clock, td, lastMark, spanLog>>
    /\ OneCall
    /\ TestFrame

\* td.as_json(run_started_at) for a run started at any instant
TestAsJson ==
    /\ td # None
    /\ \E s \in 0..MaxClock :
          /\ ~TestDataAsJsonRaises(Get(td), Some(s))
          /\ tdJson' = Some([started_at |-> s,
                             value |-> TestDataAsJson(Get(td), Some(s))])
    /\ op' = "as_json"
    /\ prev' = td
    /\ recv' = td
    /\ args' = <<>>
    /\ UNCHANGED <<clock, td, payload, shared, lastMark, spanLog>>
    /\ OneCall
    /\ TestFrame

NextTest ==
    \/ TestTick
    \/ TestStart
    \/ TestFinish
    \/ TestPassed
    \/ TestFailed
    \/ TestSkipped
    \/ TestPushSpan
    \/ TagExecution
    \/ TagExecutionTypeError
    \/ TestPushTestData
    \/ TestAsJson

SpecTest == InitTest /\ [][NextTest]_vars

(* --------------- SpecSubmit: API.submit(payload, batch_size) ----------- *)
(* Strings that are inspected character by character (the token) are       *)
(* sequences of one-character strings.                                     *)
Whitespace == {" ", "\t", "\n"}

RECURSIVE LStrip(_)
LStrip(s) ==
    IF s # <<>> /\ Head(s) \in Whitespace THEN LStrip(Tail(s)) ELSE s

RECURSIVE RStrip(_)
RStrip(s) ==
    IF s # <<>> /\ s[Len(s)] \in Whitespace
    THEN RStrip(SubSeq(s, 1, Len(s) - 1)) ELSE s

Strip(s) == RStrip(LStrip(s))

Tokens == {None, Some(<<>>), Some(<<"\n">>), Some(<<" ", "\t">>),
           Some(<<"t", "o", "k">>)}

TokenIsMissing(tok) == tok = None

\* no credential, or an empty or whitespace-only one
TokenIsBlank(tok) == IF tok = None THEN TRUE ELSE Strip(Get(tok)) = <<>>

DefaultApiUrl == "https://analytics-api.buildkite.com/v1"

StatusCodes == {199, 200, 202, 299, 300, 401}
Timeouts == {"ConnectTimeout", "ReadTimeout"}

\* What the transport does with one request: it times out or it completes
\* with a status code.
Outcomes ==
    {[kind |-> "timeout", type |-> e, status |-> 0] : e \in Timeouts}
    \cup {[kind |-> "response", type |-> "", status |-> c] : c \in StatusCodes}

AtLeast200(status) == status >= 200

Is2xx(status) == status >= 200 /\ status < 300

\* POST <endpoint>/uploads with the serialised batch and the credential
Request(batch, tok, outcome) ==
    [url |-> <<DefaultApiUrl, "/uploads">>,
     authorization |-> tok,
     body |-> Get(PayloadAsJson(batch).value),
     outcome |-> outcome]

Response(outcome, i) == [status_code |-> outcome.status, request |-> i]

\* the result yielded for the i-th batch
ResultFor(outcome, i) ==
    IF outcome.kind = "timeout" THEN None
    ELSE IF Is2xx(outcome.status) THEN Some(Response(outcome, i))
    ELSE None

\* the diagnostics of one batch: the serialiser's, then the submitter's
WarningsFor(batch, outcome) ==
    (IF PayloadAsJsonWarns(batch) THEN <<[kind |-> "unfinished", type |-> ""]>>
     ELSE <<>>)
    \o (IF outcome.kind = "timeout"
        THEN <<[kind |-> "timeout", type |-> outcome.type]>> ELSE <<>>)

PcAfterUncaught(outcome) ==
    IF outcome.kind = "timeout" THEN "raised" ELSE "running"

\* a timeout is caught and a rejected response raises nothing: the sequence
\* goes on with the next batch
PcAfter(outcome) == "running"

InitSubmit ==
    /\ clock = 1
    /\ td = None
    /\ prev = None
    /\ payload \in InputPayloads
    /\ ~PayloadAsJsonRaises(payload)
    /\ nextId = Len(payload.data) + 1
    /\ op = "init"
    /\ json = NoJson
    /\ batchSize \in 1..MaxBatch
    /\ batches = <<>>
    /\ token \in Tokens
    /\ pc = "idle"
    /\ idx = 0
    /\ results = <<>>
    /\ posts = <<>>
    /\ warnings = <<>>
    /\ IdleObj
    /\ IdleRec

\* submit() is called: the lazy sequence exists, nothing has run yet.
SubmitCall ==
    /\ pc = "idle"
    /\ pc' = "running"
    /\ batches' = IntoBatches(payload, batchSize)
    /\ UNCHANGED <<testVars, objVars, recVars, batchSize, token, idx, results, posts, warnings>>

\* The caller asks for the next result and no credential is configured.
YieldUnconfigured ==
    /\ pc = "running"
    /\ idx < Len(batches)
    /\ TokenIsBlank(token)
    /\ results' = Append(results, None)
    /\ idx' = idx + 1
    /\ UNCHANGED <<testVars, objVars, recVars, batchVars, token, pc, posts, warnings>>

Post(outcome) ==
    /\ pc = "running"
    /\ idx < Len(batches)
    /\ ~TokenIsBlank(token)
    /\ posts' = Append(posts, Request(batches[idx + 1], token, outcome))
    /\ warnings' = warnings \o WarningsFor(batches[idx + 1], outcome)
    /\ results' = Append(results, ResultFor(outcome, idx + 1))
    /\ idx' = idx + 1
    /\ pc' = PcAfter(outcome)
    /\ UNCHANGED <<testVars, objVars, recVars, batchVars, token>>

\* The caller asks for the next result and the request times out.
PostTimeout == \E o \in Outcomes : o.kind = "timeout" /\ Post(o)

\* The caller asks for the next result and the request completes.
PostResponse == \E o \in Outcomes : o.kind = "response" /\ Post(o)

\* The caller asks for the next result and there is no batch left.
Exhausted ==
    /\ pc = "running"
    /\ idx = Len(batches)
    /\ pc' = "done"
    /\ UNCHANGED <<testVars, objVars, recVars, batchVars, token, idx, results, posts, warnings>>

\* The caller stops iterating before the sequence is exhausted.
Close ==
    /\ pc = "running"
    /\ idx < Len(batches)
    /\ pc' = "closed"
    /\ UNCHANGED <<testVars, objVars, recVars, batchVars, token, idx, results, posts, warnings>>

NextSubmit ==
    \/ SubmitCall
    \/ YieldUnconfigured
    \/ PostTimeout
    \/ PostResponse
    \/ Exhausted
    \/ Close

SpecSubmit == InitSubmit /\ [][NextSubmit]_vars

(* ------------------------------ properties ----------------------------- *)
RECURSIVE ConcatData(_)
ConcatData(bs) ==
    IF bs = <<>> THEN <<>> ELSE Head(bs).data \o ConcatData(Tail(bs))

Ceil(n, b) == (n + b - 1) \div b

\* C1: the data of the batches of into_batches(b), concatenated in batch
\* order, is the data of the payload (same entries, same order), and no
\* batch holds more than b entries.
BatchesPartitionData ==
    op = "into_batches" =>
        /\ ConcatData(batches) = payload.data
        /\ \A i \in 1..Len(batches) : Len(batches[i].data) <= batchSize

BatchesPartitionDataWitness ==
    /\ op = "into_batches"
    /\ Len(batches) >= 2
    /\ Len(payload.data) >= 3
    /\ Len(batches[Len(batches)].data) < batchSize

\* C2 as stated: into_batches(B) produces ceil(N/B) batches, and a single
\* batch whenever N <= B.
BatchCountIsCeil ==
    op = "into_batches" =>
        /\ Len(batches) = Ceil(Len(payload.data), batchSize)
        /\ (Len(payload.data) <= batchSize => Len(batches) = 1)

\* C2 amended: into_batches(B) produces ceil(N/B) batches when N >= 1 and
\* one (empty) batch when N = 0; the last batch is the only one that may
\* hold fewer than B entries, and there is a single batch whenever N <= B.
BatchCountIsCeilOrOne ==
    op = "into_batches" =>
        /\ Len(batches) = IF Len(payload.data) = 0 THEN 1
                          ELSE Ceil(Len(payload.data), batchSize)
        /\ (Len(payload.data) <= batchSize => Len(batches) = 1)
        /\ \A i \in 1..(Len(batches) - 1) : Len(batches[i].data) = batchSize

BatchCountWitness ==
    /\ op = "into_batches"
    /\ Len(payload.data) > batchSize
    /\ Len(payload.data) % batchSize # 0
    /\ Len(batches) = Ceil(Len(payload.data), batchSize)

\* C8: finish() is idempotent. Applied to a finished TestData it returns
\* the TestData unchanged, and finishing twice, the second time at any later
\* clock reading, gives the end_at and duration of finishing once.
FinishIsIdempotent ==
    /\ (op = "finish" /\ TestDataIsFinished(Get(prev)) => td = prev)
    /\ (td # None /\ ~TestDataFinishRaises(Get(td), clock) =>
          \A later \in clock..MaxClock :
              LET once  == TestDataFinish(Get(td), clock)
                  twice == TestDataFinish(once, later)
              IN /\ twice.history.end_at = once.history.end_at
                 /\ twice.history.duration = once.history.duration
                 /\ twice = once)

\* finish() has been called on a TestData that was finished at an earlier
\* clock reading.
FinishIsIdempotentWitness ==
    /\ op = "finish"
    /\ TestDataIsFinished(Get(prev))
    /\ Get(Get(prev).history.end_at) < clock

\* The entries of a data tuple that carry an end time, in order.
RECURSIVE WithEndAt(_)
WithEndAt(data) ==
    IF data = <<>> THEN <<>>
    ELSE IF Head(data).history.end_at # None
         THEN <<Head(data)>> \o WithEndAt(Tail(data))
         ELSE WithEndAt(Tail(data))

\* C9: the "data" of Payload.as_json() is the encoding of exactly the
\* finished entries of the payload, in insertion order, each once; no
\* unfinished entry is encoded; the warning is logged if and only if at
\* least one entry was dropped.
AsJsonKeepsFinishedOnly ==
    op = "as_json" =>
        /\ json.warned <=>
              \E i \in 1..Len(payload.data) : payload.data[i].history.end_at = None
        /\ json.value # None =>
              LET out  == Get(json.value).data
                  kept == WithEndAt(payload.data)
              IN /\ Len(out) = Len(kept)
                 /\ \A k \in 1..Len(out) :
                       /\ out[k] = TestDataAsJson(kept[k], payload.started_at)
                       /\ out[k].id = Str(kept[k].id)
                       /\ out[k].history.end_at # None
                 /\ \A k, l \in 1..Len(out) : out[k].id = out[l].id => k = l

\* as_json() returned for a payload holding a finished entry after an
\* unfinished one, and logged the warning.
AsJsonKeepsFinishedOnlyWitness ==
    /\ op = "as_json"
    /\ json.value # None
    /\ json.warned
    /\ Len(payload.data) = 2
    /\ ~TestDataIsFinished(payload.data[1])
    /\ TestDataIsFinished(payload.data[2])
    /\ Len(Get(json.value).data) = 1

\* C10: Payload.as_json() never raises, whether or not the payload was
\* started and whatever the lifecycle state of the pushed TestData.
AsJsonNeverRaises == op = "as_json" => ~json.raised

(* ------------------- properties of the submission ----------------------- *)
\* The number of batches of a payload of n entries with batch size b.
BatchCount(n, b) == IF n = 0 THEN 1 ELSE Ceil(n, b)

\* no credential, or one made of whitespace only
Unconfigured ==
    IF token = None THEN TRUE
    ELSE \A i \in 1..Len(Get(token)) : Get(token)[i] \in Whitespace

TimedOut(j) == posts[j].outcome.kind = "timeout"

Completed2xx(j) ==
    /\ posts[j].outcome.kind = "response"
    /\ posts[j].outcome.status \in 200..299

\* C3: without a credential (none, empty or whitespace-only) every result
\* is None, a fully consumed sequence has one result per batch of the
\* payload, and no request is ever issued.
NoCredentialYieldsNone ==
    Unconfigured =>
        /\ posts = <<>>
        /\ warnings = <<>>
        /\ \A j \in 1..Len(results) : results[j] = None
        /\ pc = "done" =>
              Len(results) = BatchCount(Len(payload.data), batchSize)

NoCredentialYieldsNoneWitness ==
    /\ token # None
    /\ Get(token) # <<>>
    /\ Unconfigured
    /\ pc = "done"
    /\ Len(results) >= 2
    /\ \E i \in 1..Len(payload.data) : TestDataIsFinished(payload.data[i])

\* C4: with a credential, a timeout on a batch yields None for that batch
\* and logs one warning naming the timeout; nothing is raised and every
\* later batch is still sent: the j-th result is decided by the j-th
\* request alone.
TimeoutYieldsNoneAndContinues ==
    ~Unconfigured =>
        /\ pc # "raised"
        /\ Len(results) = Len(posts)
        /\ \A j \in 1..Len(posts) :
              /\ TimedOut(j) => results[j] = None
              /\ ~TimedOut(j) =>
                    results[j] = IF posts[j].outcome.status \in 200..299
                                 THEN Some([status_code |-> posts[j].outcome.status,
                                            request |-> j])
                                 ELSE None
        /\ Len(SelectSeq(warnings, LAMBDA w : w.kind = "timeout"))
              = Cardinality({j \in 1..Len(posts) : TimedOut(j)})
        /\ \A k \in 1..Len(warnings) :
              warnings[k].kind = "timeout" => warnings[k].type \in Timeouts
        /\ pc = "done" =>
              Len(posts) = BatchCount(Len(payload.data), batchSize)

\* batch 1 timed out, batch 2 answered 202: [None, response]
TimeoutYieldsNoneAndContinuesWitness ==
    /\ pc = "done"
    /\ Len(posts) = 2
    /\ TimedOut(1)
    /\ results[1] = None
    /\ posts[2].outcome.status = 202
    /\ results[2] # None
    /\ warnings = <<[kind |-> "timeout", type |-> "ConnectTimeout"]>>

\* C5: with a credential, the result of a batch is the response of its
\* request if and only if the request completed with a 2xx status; any other
\* status yields None, raises nothing and does not stop the later batches.
ResponseIffStatus2xx ==
    ~Unconfigured =>
        /\ \A j \in 1..Len(results) :
              /\ results[j] # None <=> Completed2xx(j)
              /\ results[j] # None =>
                    /\ Get(results[j]).status_code = posts[j].outcome.status
                    /\ Get(results[j]).request = j
        /\ (\E j \in 1..Len(posts) : ~TimedOut(j) /\ ~Completed2xx(j)) =>
              /\ pc \in {"running", "done", "closed"}
              /\ pc = "done" => Len(results) = Len(batches)

\* batch 1 was rejected with 401, batch 2 was accepted
ResponseIffStatus2xxWitness ==
    /\ pc = "done"
    /\ Len(posts) >= 2
    /\ posts[1].outcome.status = 401
    /\ results[1] = None
    /\ Completed2xx(2)
    /\ results[2] # None

\* C6: a fully consumed submit() has exactly one outcome per batch, a
\* response or None, in batch order, whatever the credential, the timeouts
\* and the status codes.
OneOutcomePerBatch ==
    pc = "done" =>
        /\ Len(results) = BatchCount(Len(payload.data), batchSize)
        /\ \A j \in 1..Len(results) :
              \/ results[j] = None
              \/ /\ Get(results[j]).request = j
                 /\ Get(results[j]).status_code \in StatusCodes

OneOutcomePerBatchWitness ==
    /\ pc = "done"
    /\ Len(results) >= 3
    /\ \E j \in 1..Len(results) : results[j] = None
    /\ \E j \in 1..Len(results) : results[j] # None

\* The entries of the i-th batch of a data tuple for batch size b.
BatchSlice(data, b, i) ==
    SubSeq(data, (i - 1) * b + 1, IF i * b < Len(data) THEN i * b ELSE Len(data))

\* C7: with a credential, the requests issued so far are as many as the
\* results requested so far, and the i-th request carries the i-th batch:
\* nothing is sent before the first result is requested, nothing is sent
\* for the batches after the last requested result, and no batch is sent
\* twice.
PullDrivenInOrderOnce ==
    ~Unconfigured =>
        /\ Len(posts) = Len(results)
        /\ Len(posts) = idx
        /\ pc = "idle" => posts = <<>>
        /\ Len(posts) <= BatchCount(Len(payload.data), batchSize)
        /\ \A i \in 1..Len(posts) :
              LET sent == WithEndAt(BatchSlice(payload.data, batchSize, i))
              IN /\ Len(posts[i].body.data) = Len(sent)
                 /\ \A k \in 1..Len(sent) :
                       posts[i].body.data[k].id = Str(sent[k].id)
                 /\ posts[i].authorization = token

\* the caller stopped after the first of three batches, which had timed out
PullDrivenInOrderOnceWitness ==
    /\ pc = "closed"
    /\ Len(posts) = 1
    /\ TimedOut(1)
    /\ Len(batches) = 3
    /\ Len(posts[1].body.data) = 1

(* ------------------- properties of one TestData ------------------------- *)
\* C11: tag_execution(key, value) raises the type error exactly when key or
\* value is not a string, and then the TestData and its tags are as before;
\* with two strings it returns a copy whose tags are the old tags with key
\* mapped to value, every other key and every other field kept.
TagExecutionContract ==
    /\ op = "tag_execution_raised" =>
          /\ args[1].type # "str" \/ args[2].type # "str"
          /\ td = prev
          /\ recv = prev
    /\ op = "tag_execution" =>
          /\ args[1].type = "str" /\ args[2].type = "str"
          /\ DOMAIN Get(td).tags = DOMAIN Get(prev).tags \cup {args[1]}
          /\ Get(td).tags[args[1]] = args[2]
          /\ \A k \in DOMAIN Get(prev).tags \ {args[1]} :
                Get(td).tags[k] = Get(prev).tags[k]
          /\ [Get(td) EXCEPT !.tags = Get(prev).tags] = Get(prev)

\* a tag was overwritten while another key was kept
TagExecutionContractWitness ==
    /\ op = "tag_execution"
    /\ args[1] \in DOMAIN Get(prev).tags
    /\ Get(prev).tags[args[1]] # args[2]
    /\ Cardinality(DOMAIN Get(td).tags) = 2

AsJsonResultAndTags ==
    op = "as_json" =>
        LET v == Get(tdJson).value
        IN /\ v.result = None <=> lastMark[1] = "none"
           /\ v.result # None => Get(v.result) = lastMark[1]
           /\ v.failure_reason =
                 IF lastMark[1] = "failed" THEN lastMark[2] ELSE None
           /\ v.failure_expanded =
                 IF lastMark[1] = "failed" THEN lastMark[3] ELSE None
           /\ v.tags = None <=> DOMAIN Get(td).tags = {}
           /\ v.tags # None => Get(v.tags) = Get(td).tags

\* a test whose last mark is passed() was encoded after at least three
\* earlier calls: "result" is "passed" and there is no failure key
AsJsonResultAndTagsWitness ==
    /\ op = "as_json"
    /\ lastMark[1] = "passed"
    /\ Get(Get(tdJson).value.result) = "passed"
    /\ Get(tdJson).value.failure_reason = None
    /\ calls >= 4

\* C15: the children of a history are the spans pushed, as many and in push
\* order, after every operation, and as_json encodes one child per span
\* pushed, in the same order.
SpansKeepPushOrder ==
    /\ td # None => Get(td).history.children = spanLog
    /\ op = "as_json" =>
          LET out == Get(tdJson).value.history.children
          IN /\ Len(out) = Len(spanLog)
             /\ \A k \in 1..Len(spanLog) :
                   /\ out[k].section = spanLog[k].section
                   /\ out[k].detail = spanLog[k].detail
                   /\ out[k].duration = spanLog[k].duration.delta

\* two different spans were pushed and the test encoded
SpansKeepPushOrderWitness ==
    /\ op = "as_json"
    /\ Len(spanLog) = 2
    /\ spanLog[1] # spanLog[2]
    /\ Len(Get(tdJson).value.history.children) = 2

\* the offset of an optional instant from the run start s
OffsetOrAbsent(x, s) == IF x = None THEN None ELSE Some(Get(x) - s)

\* C16: as_json emits start_at and end_at of the history and of every span
\* as the difference to the run start, omits an absent start_at, end_at or
\* detail, and emits the stored duration, not end_at - start_at.
AsJsonOffsetsFromRunStart ==
    op = "as_json" =>
        LET s == Get(tdJson).started_at
            h == Get(td).history
            j == Get(tdJson).value.history
        IN /\ j.start_at = OffsetOrAbsent(h.start_at, s)
           /\ j.end_at = OffsetOrAbsent(h.end_at, s)
           /\ j.duration = IF h.duration = None THEN None
                           ELSE Some(Get(h.duration).delta)
           /\ \A k \in 1..Len(h.children) :
                 /\ j.children[k].start_at = OffsetOrAbsent(h.children[k].start_at, s)
                 /\ j.children[k].end_at = OffsetOrAbsent(h.children[k].end_at, s)
                 /\ j.children[k].detail = h.children[k].detail
                 /\ j.children[k].duration = h.children[k].duration.delta

\* a finished test with a span whose stored duration is not end_at -
\* start_at, encoded for a run that started after the epoch and after the
\* span
AsJsonOffsetsFromRunStartWitness ==
    /\ op = "as_json"
    /\ Get(tdJson).started_at > 0
    /\ Get(td).history.end_at # None
    /\ Len(Get(td).history.children) >= 1
    /\ Get(td).history.children[1].start_at # None
    /\ Get(tdJson).value.history.children[1].start_at = Some(0 - Get(tdJson).started_at)
    /\ Get(tdJson).value.history.children[1].duration = 5

\* C17: passed(), failed() and skipped() change the result only: an
\* unfinished TestData stays unfinished, and every other field is kept.
MarksChangeResultOnly ==
    op \in {"passed", "failed", "skipped"} =>
        /\ [Get(td) EXCEPT !.result = Get(prev).result] = Get(prev)
        /\ Get(Get(td).result).kind = op
        /\ ~TestDataIsFinished(Get(prev)) =>
              /\ ~TestDataIsFinished(Get(td))
              /\ Get(td).history.end_at = None
              /\ Get(td).history.duration = None

\* an unfinished, tagged test was marked
MarksChangeResultOnlyWitness ==
    /\ op = "passed"
    /\ Get(td).history.end_at = None
    /\ DOMAIN Get(td).tags # {}
    /\ Get(prev).result # None

\* C19: a finished TestData stays finished, with the same start_at, end_at
\* and duration, through every further finish, tag_execution, passed,
\* failed, skipped and push_span; and finish() stamps the clock reading and
\* stores duration = end_at - start_at, which is not negative.
FinishedIsStable ==
    /\ (op \in {"finish", "tag_execution", "tag_execution_raised", "passed",
                "failed", "skipped", "push_span"}
          /\ TestDataIsFinished(Get(prev))) =>
          /\ TestDataIsFinished(Get(td))
          /\ Get(td).history.start_at = Get(prev).history.start_at
          /\ Get(td).history.end_at = Get(prev).history.end_at
          /\ Get(td).history.duration = Get(prev).history.duration
    /\ (td # None /\ Get(td).history.end_at # None) =>
          /\ Get(td).history.duration # None
          /\ Get(Get(td).history.duration).delta
                = Get(Get(td).history.end_at) - Get(Get(td).history.start_at)
          /\ Get(Get(td).history.duration).delta >= 0
          /\ Get(Get(td).history.end_at) <= clock
    /\ (op = "finish" /\ ~TestDataIsFinished(Get(prev))) =>
          Get(td).history.end_at = Some(clock)

\* a span was pushed onto a test finished at an earlier clock reading
FinishedIsStableWitness ==
    /\ op = "push_span"
    /\ TestDataIsFinished(Get(prev))
    /\ Get(Get(td).history.end_at) < clock
    /\ Get(Get(td).history.duration).delta > 0

(* ------------------- further properties of into_batches ----------------- *)
\* C13: every Payload returned by into_batches has the run_env, started_at
\* and finished_at of the source, and the call leaves the source's data,
\* run_env, started_at and finished_at as they were.
BatchesShareEnvelope ==
    [][op' = "into_batches" =>
          /\ payload' = payload
          /\ \A i \in 1..Len(batches') :
                /\ batches'[i].run_env = payload.run_env
                /\ batches'[i].started_at = payload.started_at
                /\ batches'[i].finished_at = payload.finished_at]_vars

\* a started and finished payload was split into several batches
BatchesShareEnvelopeWitness ==
    /\ op = "into_batches"
    /\ Len(batches) >= 2
    /\ payload.started_at # None
    /\ payload.finished_at # None
    /\ batches[2].finished_at = payload.finished_at

\* C18: into_batches terminates, and the recursion is no deeper than
\* N / batch_size: each recursive call takes batch_size entries off the
\* remaining data.
RecursionInvariant ==
    op \in {"called", "returned"} =>
        /\ depth * batchSize + Len(rest) = Len(payload.data)
        /\ depth * batchSize <= Len(payload.data)
        /\ Len(batches) = depth + (IF op = "returned" THEN 1 ELSE 0)
        /\ op = "returned" => batches = IntoBatches(payload, batchSize)

IntoBatchesTerminates == []RecursionInvariant /\ <>(op = "returned")

\* the call returned after at least two recursive calls
IntoBatchesTerminatesWitness ==
    /\ op = "returned"
    /\ depth >= 2
    /\ depth * batchSize < Len(payload.data)

\* C20: for a payload with at least one entry no batch is empty, every
\* batch but the last holds exactly B entries, and the only empty batch is
\* the single batch of an empty payload.
NoEmptyBatch ==
    op = "into_batches" =>
        /\ Len(payload.data) >= 1 =>
              \A i \in 1..Len(batches) : Len(batches[i].data) >= 1
        /\ \A i \in 1..Len(batches) :
              i < Len(batches) => Len(batches[i].data) = batchSize
        /\ \A i \in 1..Len(batches) :
              batches[i].data = <<>> =>
                  Len(batches) = 1 /\ payload.data = <<>>

\* a payload whose size is a multiple of the batch size: the last batch
\* is full and no empty batch follows it
NoEmptyBatchWitness ==
    /\ op = "into_batches"
    /\ Len(payload.data) = 2 * batchSize
    /\ Len(batches) = 2
    /\ Len(batches[2].data) = batchSize

====
